---- MODULE Spec2Model ----
(***************************************************************************)
(* A model of speezepearson/pdoom: src/src/models.ts (the Markov-chain     *)
(* propagation engine, the mixer and the domain transition model) and the  *)
(* top of src/src/App.tsx (the two scenario runs and their delta).         *)
(*                                                                         *)
(* Numbers.  The program computes in IEEE doubles.  The model computes in  *)
(* signed decimal fixed point with FracLimbs limbs of three digits after    *)
(* the point, every product and quotient truncated toward zero; sums and   *)
(* differences are exact.  A number is a record [neg, mag], mag the        *)
(* little-endian limbs of |x| * Base^FracLimbs, always Limbs of them, so   *)
(* that equal numbers are equal values.                                    *)
(***************************************************************************)
EXTENDS Integers, Sequences, FiniteSets, TLC

\* The limb base of the fixed-point numbers (three decimal digits a limb).
Base == 10 * 100

\* Limbs after the point: the model's precision is Base^(-FracLimbs).
FracLimbs == 5

\* Limbs of a magnitude: FracLimbs after the point, the rest before it.
Limbs == 7

----------------------------------------------------------------------------
(* Magnitudes: sequences of Limbs limbs in 0..Base-1, least significant    *)
(* first.  The operators are written with bounded quantifiers instead of   *)
(* limb-by-limb recursion, so that evaluating them nests only a few levels.*)

Limb(a, i) == IF i >= 1 /\ i <= Len(a) THEN a[i] ELSE 0

\* The function f on 1..n as a sequence value.
Tuple(f) == f \o <<>>

ZeroMag == Tuple([k \in 1..Limbs |-> 0])

\* -1, 0 or 1 as a < b, a = b, a > b (a and b of one length).
CmpMag(a, b) ==
  IF a = b THEN 0
  ELSE IF \E k \in 1..Len(a) :
            a[k] > b[k] /\ \A i \in (k + 1)..Len(a) : a[i] = b[i]
       THEN 1 ELSE -1

\* Whether a carry enters limb k of e (limbs at most 2 * Base - 2): some
\* lower limb overflows and every limb between passes the carry on.
CarryIn(e, k) ==
  \E j \in 1..(k - 1) :
    e[j] >= Base /\ \A i \in (j + 1)..(k - 1) : e[i] = Base - 1

Ripple(e) ==
  Tuple([k \in 1..Len(e) |-> (e[k] + (IF CarryIn(e, k) THEN 1 ELSE 0)) % Base])

\* Column sums below Base^3 brought to limbs: two foldings leave every
\* column at most Base + 1, the ripple does the rest.
Fold1(c) ==
  Tuple([k \in 1..Len(c) |->
           (c[k] % Base) + ((Limb(c, k - 1) \div Base) % Base)
                         + (Limb(c, k - 2) \div (Base * Base))])
Fold2(d) ==
  Tuple([k \in 1..Len(d) |-> (d[k] % Base) + (Limb(d, k - 1) \div Base)])
Digits(c) == Ripple(Fold2(Fold1(c)))

AddMag(a, b) == Ripple(Tuple([k \in 1..Len(a) |-> a[k] + b[k]]))

BorrowIn(a, b, k) ==
  \E j \in 1..(k - 1) :
    a[j] < b[j] /\ \A i \in (j + 1)..(k - 1) : a[i] = b[i]

\* a - b for a >= b.
SubMag(a, b) ==
  Tuple([k \in 1..Len(a) |->
           (a[k] - b[k] - (IF BorrowIn(a, b, k) THEN 1 ELSE 0) + Base) % Base])

RECURSIVE ColSum(_, _, _, _)
ColSum(a, b, k, i) ==
  IF i > Len(a) \/ i > k THEN 0
  ELSE a[i] * Limb(b, k + 1 - i) + ColSum(a, b, k, i + 1)

\* a * b / Base^FracLimbs, truncated.
MulMag(a, b) ==
  SubSeq(Digits(Tuple([k \in 1..(Limbs + FracLimbs) |-> ColSum(a, b, k, 1)])),
         FracLimbs + 1, FracLimbs + Limbs)

\* b * d for one limb d: limb k takes the low part of b[k] * d and the high
\* part of b[k - 1] * d, the ripple does the rest.
MulSmall(b, d) ==
  Ripple(Tuple([k \in 1..Len(b) |->
                  ((b[k] * d) % Base) + ((Limb(b, k - 1) * d) \div Base)]))

\* The largest d in lo..hi with b * d <= r (b * lo <= r is given).
RECURSIVE QSearch(_, _, _, _)
QSearch(r, b, lo, hi) ==
  IF lo >= hi THEN lo
  ELSE IF CmpMag(MulSmall(b, hi), r) <= 0 THEN hi
  ELSE QSearch(r, b, lo, hi - 1)

\* One quotient limb, floor(r / b) for r < b * Base: the three leading limbs
\* of r (t3) over the two leading limbs of b (b2) bracket it, the search
\* settles it.  n is the place of b's leading limb.
QBracket(r, b, t3, b2) ==
  QSearch(r, b, t3 \div (b2 + 1),
          IF (t3 + 1) \div b2 > Base - 1 THEN Base - 1 ELSE (t3 + 1) \div b2)

QDigit(r, b, n) ==
  IF CmpMag(r, b) < 0 THEN 0
  ELSE QBracket(r, b,
                (Limb(r, n + 1) * Base + Limb(r, n)) * Base + Limb(r, n - 1),
                b[n] * Base + Limb(b, n - 1))

Top(b) == CHOOSE n \in 1..Len(b) : b[n] # 0 /\ \A i \in (n + 1)..Len(b) : b[i] = 0

\* Long division of a * Base^FracLimbs by b, from the quotient's most
\* significant limb down.  r is the running remainder with the next limb of
\* the dividend shifted in (one limb longer than a magnitude), d the quotient
\* limb it gives; the result lists the quotient's limbs from limb i down.
RECURSIVE DivFrom(_, _, _, _, _)
DivEmit(a, b, n, i, r, d) ==
  IF i = 1 THEN <<d>>
  ELSE <<d>> \o DivFrom(a, b, n, i - 1,
                        <<Limb(a, i - 1 - FracLimbs)>>
                          \o SubSeq(SubMag(r, MulSmall(b, d)), 1, Limbs))
DivFrom(a, b, n, i, r) == DivEmit(a, b, n, i, r, QDigit(r, b, n))

Reverse(s) == Tuple([k \in 1..Len(s) |-> s[Len(s) + 1 - k]])

\* floor(a * Base^FracLimbs / b) for b # 0.
DivMag(a, b) ==
  Reverse(DivFrom(a, b \o <<0>>, Top(b), Limbs,
                  Tuple([k \in 1..(Limbs + 1) |-> Limb(a, k + Limbs - FracLimbs - 1)])))

NatMag(n) ==
  Tuple([k \in 1..Limbs |->
           IF k <= FracLimbs \/ k > FracLimbs + 4 THEN 0
           ELSE (n \div Base ^ (k - FracLimbs - 1)) % Base])

----------------------------------------------------------------------------
(* Signed fixed-point numbers: the model of the program's `number`.        *)

Mk(neg, mag) == [neg |-> neg /\ mag # ZeroMag, mag |-> mag]

Zero == Mk(FALSE, ZeroMag)
FromInt(n) == IF n < 0 THEN Mk(TRUE, NatMag(-n)) ELSE Mk(FALSE, NatMag(n))
One == FromInt(1)

FNeg(x) == Mk(~x.neg, x.mag)

FAdd(x, y) ==
  IF x.mag = ZeroMag THEN y
  ELSE IF y.mag = ZeroMag THEN x
  ELSE IF x.neg = y.neg THEN Mk(x.neg, AddMag(x.mag, y.mag))
  ELSE IF CmpMag(x.mag, y.mag) >= 0 THEN Mk(x.neg, SubMag(x.mag, y.mag))
  ELSE Mk(y.neg, SubMag(y.mag, x.mag))

FSub(x, y) == FAdd(x, FNeg(y))

FMul(x, y) ==
  IF x.mag = ZeroMag \/ y.mag = ZeroMag THEN Zero
  ELSE IF y = One THEN x
  ELSE Mk(x.neg # y.neg, MulMag(x.mag, y.mag))

\* x / y for y # 0 (the program's callers keep every divisor positive).
FDiv(x, y) ==
  IF y = One THEN x
  ELSE IF x.mag = ZeroMag THEN Zero
  ELSE Mk(x.neg # y.neg, DivMag(x.mag, y.mag))

\* -1, 0 or 1 as x < y, x = y, x > y.
FCmp(x, y) ==
  IF x.neg /\ ~y.neg THEN -1
  ELSE IF ~x.neg /\ y.neg THEN 1
  ELSE IF x.neg THEN CmpMag(y.mag, x.mag)
  ELSE CmpMag(x.mag, y.mag)

FLe(x, y) == FCmp(x, y) <= 0
FLt(x, y) == FCmp(x, y) < 0
FMin(x, y) == IF FLe(x, y) THEN x ELSE y

\* The decimal literal n * 10^(-k), k in 0..3*FracLimbs (0.05 is Dec(5, 2)):
\* n * 10^pad, pad in 0..2, written from limb FracLimbs - (k + 2) \div 3 up.
DecMag(m, off) ==
  Tuple([j \in 1..Limbs |->
           IF j <= off \/ j > off + 4 THEN 0
           ELSE (m \div Base ^ (j - 1 - off)) % Base])
Dec(n, k) ==
  Mk(FALSE, DecMag(n * 10 ^ (3 * ((k + 2) \div 3) - k), FracLimbs - ((k + 2) \div 3)))

\* A number written as its limbs, most significant first: the whole part and
\* seven limbs after the point (<<1, 71, 773, ...>> is 1.071773...).
Lit(limbs) ==
  Mk(FALSE,
     Tuple([j \in 1..Limbs |->
              IF j <= FracLimbs
              THEN (IF FracLimbs - j + 1 <= 7 THEN limbs[FracLimbs - j + 2] ELSE 0)
              ELSE IF j = FracLimbs + 1 THEN limbs[1] % Base
              ELSE IF j = FracLimbs + 2 THEN limbs[1] \div Base
              ELSE 0]))

----------------------------------------------------------------------------
(* The runtime's Math.exp and ** on the arguments the program gives them:  *)
(* range reduction and a table of the values, truncated to 21 decimals.    *)

\* 2^(r/10) for r = 0..9.
Pow2Tenths ==
  << Lit(<<1, 0, 0, 0, 0, 0, 0, 0>>),
     Lit(<<1, 71, 773, 462, 536, 293, 164, 213>>),
     Lit(<<1, 148, 698, 354, 997, 35, 6, 798>>),
     Lit(<<1, 231, 144, 413, 344, 916, 284, 499>>),
     Lit(<<1, 319, 507, 910, 772, 894, 259, 374>>),
     Lit(<<1, 414, 213, 562, 373, 95, 48, 801>>),
     Lit(<<1, 515, 716, 566, 510, 398, 82, 347>>),
     Lit(<<1, 624, 504, 792, 712, 471, 45, 219>>),
     Lit(<<1, 741, 101, 126, 592, 248, 278, 272>>),
     Lit(<<1, 866, 65, 983, 73, 614, 831, 962>>) >>

\* 2^(r/30) for r = 0..29.
Pow2Thirtieths ==
  << Lit(<<1, 0, 0, 0, 0, 0, 0, 0>>),
     Lit(<<1, 23, 373, 891, 996, 774, 909, 854>>),
     Lit(<<1, 47, 294, 122, 820, 626, 717, 891>>),
     Lit(<<1, 71, 773, 462, 536, 293, 164, 213>>),
     Lit(<<1, 96, 824, 979, 694, 625, 960, 681>>),
     Lit(<<1, 122, 462, 48, 309, 372, 981, 433>>),
     Lit(<<1, 148, 698, 354, 997, 35, 6, 798>>),
     Lit(<<1, 175, 547, 906, 283, 608, 707, 622>>),
     Lit(<<1, 203, 25, 36, 82, 116, 650, 957>>),
     Lit(<<1, 231, 144, 413, 344, 916, 284, 499>>),
     Lit(<<1, 259, 921, 49, 894, 873, 164, 767>>),
     Lit(<<1, 289, 370, 308, 439, 579, 182, 512>>),
     Lit(<<1, 319, 507, 910, 772, 894, 259, 374>>),
     Lit(<<1, 350, 349, 946, 168, 189, 994, 360>>),
     Lit(<<1, 381, 912, 879, 967, 776, 80, 819>>),
     Lit(<<1, 414, 213, 562, 373, 95, 48, 801>>),
     Lit(<<1, 447, 269, 237, 440, 378, 69, 954>>),
     Lit(<<1, 481, 97, 552, 286, 564, 249, 645>>),
     Lit(<<1, 515, 716, 566, 510, 398, 82, 347>>),
     Lit(<<1, 551, 144, 761, 833, 734, 621, 439>>),
     Lit(<<1, 587, 401, 51, 968, 199, 474, 751>>),
     Lit(<<1, 624, 504, 792, 712, 471, 45, 219>>),
     Lit(<<1, 662, 475, 792, 285, 575, 556, 85>>),
     Lit(<<1, 701, 334, 321, 901, 711, 397, 996>>),
     Lit(<<1, 741, 101, 126, 592, 248, 278, 272>>),
     Lit(<<1, 781, 797, 436, 280, 678, 609, 480>>),
     Lit(<<1, 823, 444, 977, 116, 433, 615, 632>>),
     Lit(<<1, 866, 65, 983, 73, 614, 831, 962>>),
     Lit(<<1, 909, 683, 207, 820, 833, 102, 81>>),
     Lit(<<1, 954, 319, 936, 868, 491, 909, 865>>) >>

\* e^(r/20) for r = 0..19.
ExpTwentieths ==
  << Lit(<<1, 0, 0, 0, 0, 0, 0, 0>>),
     Lit(<<1, 51, 271, 96, 376, 24, 39, 697>>),
     Lit(<<1, 105, 170, 918, 75, 647, 624, 811>>),
     Lit(<<1, 161, 834, 242, 728, 283, 122, 616>>),
     Lit(<<1, 221, 402, 758, 160, 169, 833, 921>>),
     Lit(<<1, 284, 25, 416, 687, 741, 484, 73>>),
     Lit(<<1, 349, 858, 807, 576, 3, 103, 983>>),
     Lit(<<1, 419, 67, 548, 593, 257, 248, 270>>),
     Lit(<<1, 491, 824, 697, 641, 270, 317, 824>>),
     Lit(<<1, 568, 312, 185, 490, 168, 811, 179>>),
     Lit(<<1, 648, 721, 270, 700, 128, 146, 848>>),
     Lit(<<1, 733, 253, 17, 867, 395, 236, 821>>),
     Lit(<<1, 822, 118, 800, 390, 508, 974, 875>>),
     Lit(<<1, 915, 540, 829, 13, 896, 70, 146>>),
     Lit(<<2, 13, 752, 707, 470, 476, 521, 624>>),
     Lit(<<2, 117, 0, 16, 612, 674, 668, 545>>),
     Lit(<<2, 225, 540, 928, 492, 467, 604, 579>>),
     Lit(<<2, 339, 646, 851, 925, 990, 936, 854>>),
     Lit(<<2, 459, 603, 111, 156, 949, 663, 800>>),
     Lit(<<2, 585, 709, 659, 315, 846, 198, 989>>) >>

\* e^q for q = -10..3.
ExpWhole ==
  << Lit(<<0, 0, 45, 399, 929, 762, 484, 851>>),
     Lit(<<0, 0, 123, 409, 804, 86, 679, 549>>),
     Lit(<<0, 0, 335, 462, 627, 902, 511, 838>>),
     Lit(<<0, 0, 911, 881, 965, 554, 516, 208>>),
     Lit(<<0, 2, 478, 752, 176, 666, 358, 423>>),
     Lit(<<0, 6, 737, 946, 999, 85, 467, 96>>),
     Lit(<<0, 18, 315, 638, 888, 734, 180, 293>>),
     Lit(<<0, 49, 787, 68, 367, 863, 942, 979>>),
     Lit(<<0, 135, 335, 283, 236, 612, 691, 893>>),
     Lit(<<0, 367, 879, 441, 171, 442, 321, 595>>),
     Lit(<<1, 0, 0, 0, 0, 0, 0, 0>>),
     Lit(<<2, 718, 281, 828, 459, 45, 235, 360>>),
     Lit(<<7, 389, 56, 98, 930, 650, 227, 230>>),
     Lit(<<20, 85, 536, 923, 187, 667, 740, 928>>) >>

\* Math.exp(n / 20), n an integer number of twentieths in -200..79.
Exp(n) == FMul(ExpWhole[(n \div 20) + 11], ExpTwentieths[(n % 20) + 1])

\* 2 ** (t / d) for d = 10 or d = 30 and t >= 0.
Pow2(t, d) ==
  FMul(FromInt(2 ^ (t \div d)),
       IF d = 10 THEN Pow2Tenths[(t % d) + 1] ELSE Pow2Thirtieths[(t % d) + 1])

----------------------------------------------------------------------------
(* World and Ensemble<World>.  A World is a year or one of the three       *)
(* terminal values; a Map<World, Prob> is a function from its keys to      *)
(* numbers.  The order of a Map's entries decides only the order of the    *)
(* program's additions, which are exact here.                              *)

Year(y) == [tag |-> "year", year |-> y]
Dead == [tag |-> "dead", year |-> 0]
Heaven == [tag |-> "heaven", year |-> 0]
Reset == [tag |-> "reset", year |-> 0]
Terminal == {Dead, Heaven, Reset}

EmptyMap == <<>>
\* map.set(k, v)
Put(m, k, v) == (k :> v) @@ m
\* map.get(k) || 0
Get(m, k) == IF k \in DOMAIN m THEN m[k] ELSE Zero
\* The function f as a Map value.
MapOf(f) == f @@ EmptyMap
PointMass(w) == Put(EmptyMap, w, One)

RECURSIVE SeqOf(_)
SeqOf(S) ==
  IF S = {} THEN <<>>
  ELSE LET k == CHOOSE k \in S : TRUE IN <<k>> \o SeqOf(S \ {k})

\* Array.from(map.keys()), in some order.
Keys(m) == SeqOf(DOMAIN m)

RECURSIVE SumOver(_, _)
SumOver(m, ks) == IF ks = <<>> THEN Zero ELSE FAdd(m[Head(ks)], SumOver(m, Tail(ks)))

\* The total mass of a map.
Total(m) == SumOver(m, Keys(m))

----------------------------------------------------------------------------
(* The odds normalizer.                                                    *)

\* A Map keyed by functions is a sequence of entries [key, value], in
\* insertion order, its keys distinct.
RECURSIVE SumValues(_)
SumValues(es) == IF es = <<>> THEN Zero ELSE FAdd(Head(es).value, SumValues(Tail(es)))

Scaled(ensemble, total) ==
  Tuple([i \in 1..Len(ensemble) |->
           [key |-> ensemble[i].key, value |-> FDiv(ensemble[i].value, total)]])

\* A normalize that returns the weights as they are.
Unnormalized(ensemble) == ensemble

normalize(ensemble) == Scaled(ensemble, SumValues(ensemble))

\* Object.values(odds).reduce((a, b) => a + b, 0)
OddsTotal(odds) == SumOver(odds, Keys(odds))

pFromOdds(odds, key) == FDiv(odds[key], OddsTotal(odds))

----------------------------------------------------------------------------
(* The domain transition model.  A sub-model is a closure (year) => {p,    *)
(* odds}: [fam, id, acc] is the id-th closure of its family in buildModels *)
(* with the acceleration it closes over, [fam |-> "const", p, odds] a      *)
(* caller's closure that returns the same p and odds every year.           *)

\* stdSigmoid(n / 20)
stdSigmoid(n) == FDiv(One, FAdd(One, Exp(-n)))

\* The literals of buildModels.
AgiBaseRate == <<Dec(5, 2), Dec(2, 2), Dec(3, 2), Dec(1, 3)>>
AgiDoubling == <<10, 10, 10, 30>>
AgiPrior == <<One, One, One, Dec(2, 1)>>
WorkBoost == Dec(1, 7)
NukeP == Dec(1, 2)
PlagueP == Dec(5, 3)
Tenth == Dec(1, 1)
NineTenths == Dec(9, 1)
Half == Dec(5, 1)
Two == FromInt(2)
Three == FromInt(3)

\* An agi model that leaves the acceleration out of its rate.
AgiRateUnaccelerated(m, year) ==
  FMul(FMul(One, AgiBaseRate[m.id]), Pow2(year - 2022, AgiDoubling[m.id]))

\* accelerationFromWorking * rate * 2 ** ((year - 2022) / doubling)
AgiRate(m, year) ==
  FMul(FMul(m.acc, AgiBaseRate[m.id]), Pow2(year - 2022, AgiDoubling[m.id]))

\* The sigmoid every odds of an agi model is written with:
\* stdSigmoid((year - 2030) / 10) in the second model,
\* stdSigmoid((year - 2080) / 20) in the others.
AgiSigmoid(m, year) ==
  IF m.id = 2 THEN stdSigmoid(2 * (year - 2030)) ELSE stdSigmoid(year - 2080)

\* The odds of the id-th agi model, s its sigmoid.
OddsOf(id, s) ==
  CASE id = 1 -> [heaven |-> s, dead |-> FSub(One, s), reset |-> Zero]
    [] id = 2 -> [heaven |-> s,
                  dead   |-> FDiv(FMul(FSub(One, s), Two), Three),
                  reset  |-> FDiv(FMul(FSub(One, s), One), Three)]
    [] id = 3 -> [heaven |-> s,
                  dead   |-> FDiv(FSub(One, s), Two),
                  reset  |-> FDiv(FSub(One, s), Two)]
    [] id = 4 -> [heaven |-> s, dead |-> Zero, reset |-> Zero]

AgiOdds(m, year) == OddsOf(m.id, AgiSigmoid(m, year))

\* The event probability a sub-model gives before any cap.
Rate(m, year) ==
  CASE m.fam = "const" -> m.p
    [] m.fam = "agi" -> AgiRate(m, year)
    [] m.fam = "nukes" -> NukeP
    [] m.fam = "plague" -> IF m.id = 1 THEN PlagueP ELSE Zero

\* Calling the sub-model m on a year.
SubModel(m, year) ==
  CASE m.fam = "const" -> [p |-> m.p, odds |-> m.odds]
    [] m.fam = "agi" ->
         [p |-> FMin(One, Rate(m, year)), odds |-> AgiOdds(m, year)]
    [] m.fam = "nukes" ->
         [p |-> Rate(m, year), odds |-> [dead |-> Tenth, reset |-> NineTenths]]
    [] m.fam = "plague" ->
         [p |-> Rate(m, year),
          odds |-> IF m.id = 1 THEN [dead |-> Tenth, reset |-> NineTenths]
                   ELSE [dead |-> Zero, reset |-> One]]

simpleTransitionFunction(opts) ==
  [kind |-> "simple", agi |-> opts.agi, nukes |-> opts.nukes, plague |-> opts.plague]

\* The switch of the closure simpleTransitionFunction returns.
IsTerminal(world) == world \in Terminal

\* The Map the closure returns for a year.
YearMap(year, pHeaven, pDead, pReset) ==
  (Heaven :> pHeaven) @@ (Dead :> pDead) @@ (Reset :> pReset)
    @@ (Year(year + 1) :> FSub(FSub(FSub(One, pHeaven), pDead), pReset))

\* The closure's default branch, the three sub-models called.
Combine(year, agi, nukes, plague) ==
  YearMap(year,
          FMul(agi.p, pFromOdds(agi.odds, "heaven")),
          FAdd(FAdd(FMul(agi.p, pFromOdds(agi.odds, "dead")),
                    FMul(nukes.p, pFromOdds(nukes.odds, "dead"))),
               FMul(plague.p, pFromOdds(plague.odds, "dead"))),
          FAdd(FAdd(FMul(agi.p, pFromOdds(agi.odds, "reset")),
                    FMul(nukes.p, pFromOdds(nukes.odds, "reset"))),
               FMul(plague.p, pFromOdds(plague.odds, "reset"))))

\* A terminal case returning "dead" whatever the world is.
TerminalMapDead(world) == Put(EmptyMap, Dead, One)

\* new Map([[world, 1]]) of the terminal cases.
TerminalMap(world) == Put(EmptyMap, world, One)

\* The closure simpleTransitionFunction returns, applied to world.
SimpleApply(f, world) ==
  IF IsTerminal(world) THEN TerminalMap(world)
  ELSE Combine(world.year, SubModel(f.agi, world.year),
               SubModel(f.nukes, world.year), SubModel(f.plague, world.year))

\* transition(world) for every transition function of the model: the domain
\* closure, and two closures a caller of the engine passes: [kind |-> "decay",
\* p] moves p of a year's mass to "dead" and the rest to the next year and
\* keeps "dead"; [kind |-> "lazy"] keeps half of a year's mass and moves half.
Apply(f, world) ==
  CASE f.kind = "simple" -> SimpleApply(f, world)
    [] f.kind = "decay" ->
         IF world.tag = "year"
         THEN Put(Put(EmptyMap, Year(world.year + 1), FSub(One, f.p)), Dead, f.p)
         ELSE PointMass(world)
    [] f.kind = "lazy" ->
         IF world.tag = "year"
         THEN Put(Put(EmptyMap, world, Half), Year(world.year + 1), Half)
         ELSE PointMass(world)

----------------------------------------------------------------------------
(* The transition step engine and the mixer.  Both fill a Map entry by     *)
(* entry; the model gives every key of the result the sum of what the      *)
(* loops add to it, in the loops' order.                                   *)

\* A step that sets the entry instead of adding to it.
AccumulateOverwrite(acc, probability, nextProbability) ==
  FMul(probability, nextProbability)

\* step's inner body for one entry [cur, probability] of the ensemble and
\* one entry [next, nextProbability] of transition(cur), acc what result
\* holds for next: result.set(next, (result.get(next) || 0) + p * q).
Accumulate(acc, probability, nextProbability) ==
  FAdd(acc, FMul(probability, nextProbability))

\* What result holds for next after the entries ks[1..n] of the ensemble;
\* nexts[cur] is transition(cur).
RECURSIVE StepSum(_, _, _, _, _)
StepSum(ensemble, nexts, next, ks, n) ==
  IF n = 0 THEN Zero
  ELSE IF next \in DOMAIN nexts[ks[n]]
       THEN Accumulate(StepSum(ensemble, nexts, next, ks, n - 1),
                       ensemble[ks[n]], nexts[ks[n]][next])
       ELSE StepSum(ensemble, nexts, next, ks, n - 1)

StepResult(ensemble, nexts, ks) ==
  MapOf([next \in UNION {DOMAIN nexts[cur] : cur \in DOMAIN ensemble} |->
           StepSum(ensemble, nexts, next, ks, Len(ks))])

step(ensemble, transition) ==
  StepResult(ensemble,
             MapOf([cur \in DOMAIN ensemble |-> Apply(transition, cur)]),
             Keys(ensemble))

\* A mix that leaves out the division by totalWeight.
MixAccumulateUnscaled(acc, probability, weight, totalWeight) ==
  FAdd(acc, FMul(probability, weight))

\* mix's inner body: result.set(value, (result.get(value) || 0) + p * w / W).
MixAccumulate(acc, probability, weight, totalWeight) ==
  FAdd(acc, FDiv(FMul(probability, weight), totalWeight))

\* What result holds for value after the pairs ensembles[1..n].
RECURSIVE MixSum(_, _, _, _)
MixSum(ensembles, totalWeight, value, n) ==
  IF n = 0 THEN Zero
  ELSE IF value \in DOMAIN ensembles[n].ensemble
       THEN MixAccumulate(MixSum(ensembles, totalWeight, value, n - 1),
                          ensembles[n].ensemble[value], ensembles[n].weight,
                          totalWeight)
       ELSE MixSum(ensembles, totalWeight, value, n - 1)

\* ensembles.reduce((acc, [_, weight]) => acc + weight, 0)
RECURSIVE SumWeights(_, _)
SumWeights(ensembles, n) ==
  IF n = 0 THEN Zero ELSE FAdd(SumWeights(ensembles, n - 1), ensembles[n].weight)

MixResult(ensembles, totalWeight) ==
  MapOf([value \in UNION {DOMAIN ensembles[k].ensemble : k \in 1..Len(ensembles)} |->
           MixSum(ensembles, totalWeight, value, Len(ensembles))])

\* ensembles is a sequence of pairs [ensemble, weight].
mix(ensembles) == MixResult(ensembles, SumWeights(ensembles, Len(ensembles)))

----------------------------------------------------------------------------
(* buildModels.                                                            *)

\* An acceleration that slows down.
DecelerationFromWorking(opts) == FSub(One, IF opts.work THEN WorkBoost ELSE Zero)

accelerationFromWorking(opts) == FAdd(One, IF opts.work THEN WorkBoost ELSE Zero)

agiModels(acc) ==
  normalize(Tuple([i \in 1..4 |->
                     [key |-> [fam |-> "agi", id |-> i, acc |-> acc], value |-> AgiPrior[i]]]))

nukesModels ==
  normalize(<<[key |-> [fam |-> "nukes", id |-> 1], value |-> One]>>)

plagueModels ==
  normalize(Tuple([i \in 1..2 |->
                     [key |-> [fam |-> "plague", id |-> i], value |-> One]]))

\* The flatMap of buildModels: one entry a triple, the agi model outermost.
Triple(a, n, p) ==
  [key |-> simpleTransitionFunction([agi |-> a.key, nukes |-> n.key, plague |-> p.key]),
   value |-> FMul(FMul(a.value, n.value), p.value)]

Triples(A, N, P) ==
  Tuple([i \in 1..(Len(A) * Len(N) * Len(P)) |->
           Triple(A[((i - 1) \div (Len(N) * Len(P))) + 1],
                  N[(((i - 1) \div Len(P)) % Len(N)) + 1],
                  P[((i - 1) % Len(P)) + 1])])

buildModels(opts) ==
  normalize(Triples(agiModels(accelerationFromWorking(opts)), nukesModels, plagueModels))

----------------------------------------------------------------------------
(* The callers.  App.tsx calls extrapolateAndMix twice from StartYear over *)
(* Horizon years and subtracts; the other callers are calls of the library *)
(* with small ensembles of their own.                                      *)

StartYear == 2022
Horizon == 100

\* The longest trajectory the other callers ask for.
MaxSteps == 4

\* A sub-model that returns the same p and odds every year.
ConstModel(p, odds) == [fam |-> "const", p |-> p, odds |-> odds]

Decay == [kind |-> "decay", p |-> Tenth]
Thirds == [kind |-> "decay", p |-> FDiv(One, Three)]
Lazy == [kind |-> "lazy"]
Steady ==
  simpleTransitionFunction(
    [agi    |-> ConstModel(Half, [heaven |-> One, dead |-> One, reset |-> Two]),
     nukes  |-> ConstModel(Dec(25, 2), [dead |-> One, reset |-> Three]),
     plague |-> ConstModel(Dec(125, 3), [dead |-> Zero, reset |-> One])])

\* The ensembles of the other callers, as Maps from transition function to
\* weight.
Ensembles ==
  { <<[key |-> Decay, value |-> One]>>,
    <<[key |-> Lazy, value |-> Two]>>,
    <<[key |-> Thirds, value |-> Dec(15, 1)]>>,
    <<[key |-> Decay, value |-> One], [key |-> Lazy, value |-> One]>>,
    <<[key |-> Decay, value |-> One], [key |-> Lazy, value |-> Three]>>,
    <<[key |-> Steady, value |-> One], [key |-> Decay, value |-> Three]>> }

VARIABLES
  app,            \* where App.tsx is: "noWork", "work", "delta"; "none" for
                  \* another caller
  historyNoWork,  \* App.tsx's three constants, <<>> until computed
  historyWork,
  delta,
  start,          \* the arguments of the running extrapolateAndMix call
  models,
  nSteps,
  pc,             \* where the call is: "extrapolate", "mixHistories", "return"
  histories,      \* the pairs [history, weight] its map has produced
  result,         \* the locals of the running extrapolate call
  current,
  i,
  mixResult,      \* the locals result and i of mixHistories
  mixI,
  returned        \* what extrapolateAndMix returned, <<>> until it returns

vars == <<app, historyNoWork, historyWork, delta, start, models, nSteps, pc,
          histories, result, current, i, mixResult, mixI, returned>>

\* extrapolateAndMix(s, m, n) is entered: the first extrapolate call starts.
Enter(s, m, n) ==
  /\ start = s /\ models = m /\ nSteps = n
  /\ pc = "extrapolate"
  /\ histories = <<>>
  /\ result = <<>> /\ current = PointMass(s) /\ i = 0
  /\ mixResult = <<>> /\ mixI = 0
  /\ returned = <<>>

Init ==
  /\ historyNoWork = <<>> /\ historyWork = <<>> /\ delta = <<>>
  /\ \/ /\ app = "noWork"
        /\ Enter(Year(StartYear), buildModels([work |-> FALSE]), Horizon)
     \/ /\ app = "none"
        /\ \E s \in {Year(StartYear)} \cup Terminal, m \in Ensembles, n \in 0..MaxSteps :
             Enter(s, m, n)

\* The transition function and the weight of the model being extrapolated.
Model == models[Len(histories) + 1]

\* A loop that runs once more.
LoopingOnceMore(n, steps) == n <= steps

\* extrapolate's loop condition.
Looping(n, steps) == n < steps

\* One turn of extrapolate's loop: push current, then step it.
ExtrapolateLoop ==
  /\ pc = "extrapolate"
  /\ Looping(i, nSteps)
  /\ result' = Append(result, current)
  /\ current' = step(current, Model.key)
  /\ i' = i + 1
  /\ UNCHANGED <<app, historyNoWork, historyWork, delta, start, models, nSteps,
                 pc, histories, mixResult, mixI, returned>>

\* extrapolate returns result; the map of extrapolateAndMix pairs it with
\* the model's weight and goes on to the next model, or calls mixHistories.
ExtrapolateReturn ==
  /\ pc = "extrapolate"
  /\ ~Looping(i, nSteps)
  /\ histories' = Append(histories, [history |-> result, weight |-> Model.value])
  /\ result' = <<>> /\ current' = PointMass(start) /\ i' = 0
  /\ pc' = IF Len(histories) + 1 < Len(models) THEN "extrapolate" ELSE "mixHistories"
  /\ UNCHANGED <<app, historyNoWork, historyWork, delta, start, models, nSteps,
                 mixResult, mixI, returned>>

\* A map that takes every history's first element.
EnsemblesAtFirst(hs, n) ==
  Tuple([k \in 1..Len(hs) |-> [ensemble |-> hs[k].history[1], weight |-> hs[k].weight]])

\* histories.map(([history, weight]) => [history[i], weight]), i from 0.
EnsemblesAt(hs, n) ==
  Tuple([k \in 1..Len(hs) |-> [ensemble |-> hs[k].history[n + 1], weight |-> hs[k].weight]])

\* mixHistories' loop condition.
Mixing(n, hs) == n < Len(hs[1].history)

\* One turn of mixHistories' loop.
MixLoop ==
  /\ pc = "mixHistories"
  /\ Mixing(mixI, histories)
  /\ mixResult' = Append(mixResult, mix(EnsemblesAt(histories, mixI)))
  /\ mixI' = mixI + 1
  /\ UNCHANGED <<app, historyNoWork, historyWork, delta, start, models, nSteps,
                 pc, histories, result, current, i, returned>>

\* mixHistories returns, and with it extrapolateAndMix.
MixReturn ==
  /\ pc = "mixHistories"
  /\ ~Mixing(mixI, histories)
  /\ returned' = mixResult
  /\ pc' = "return"
  /\ UNCHANGED <<app, historyNoWork, historyWork, delta, start, models, nSteps,
                 histories, result, current, i, mixResult, mixI>>

\* App.tsx keeps the first trajectory and makes its second call.
AppWork ==
  /\ app = "noWork" /\ pc = "return"
  /\ historyNoWork' = returned
  /\ app' = "work"
  /\ start' = Year(StartYear)
  /\ models' = buildModels([work |-> TRUE])
  /\ nSteps' = Horizon
  /\ pc' = "extrapolate"
  /\ histories' = <<>>
  /\ result' = <<>> /\ current' = PointMass(Year(StartYear)) /\ i' = 0
  /\ mixResult' = <<>> /\ mixI' = 0
  /\ returned' = <<>>
  /\ UNCHANGED <<historyWork, delta>>

\* historyWork.map((ensemble, i) => new Map(... v - (historyNoWork[i].get(k) || 0)))
Delta(work, noWork) ==
  Tuple([n \in 1..Len(work) |->
           MapOf([k \in DOMAIN work[n] |-> FSub(work[n][k], Get(noWork[n], k))])])

\* App.tsx keeps the second trajectory and computes delta.
AppDelta ==
  /\ app = "work" /\ pc = "return"
  /\ historyWork' = returned
  /\ delta' = Delta(returned, historyNoWork)
  /\ app' = "delta"
  /\ UNCHANGED <<historyNoWork, start, models, nSteps, pc, histories, result,
                 current, i, mixResult, mixI, returned>>

Next ==
  \/ ExtrapolateLoop
  \/ ExtrapolateReturn
  \/ MixLoop
  \/ MixReturn
  \/ AppWork
  \/ AppDelta

Spec == Init /\ [][Next]_vars

----------------------------------------------------------------------------
(* The properties.                                                         *)

\* The tolerance the specification names for sums of probabilities.
Tolerance == Dec(1, 9)

Near(a, b) == FLe(FSub(a, b), Tolerance) /\ FLe(FSub(b, a), Tolerance)

\* n units of the last place.
Ulps(n) == Mk(FALSE, Tuple([k \in 1..Limbs |-> IF k = 1 THEN n ELSE 0]))

Close(a, b) == FLe(FSub(a, b), Ulps(4)) /\ FLe(FSub(b, a), Ulps(4))

UnitInterval(p) == FLe(Zero, p) /\ FLe(p, One)

AllUnitInterval(m) == \A w \in DOMAIN m : UnitInterval(m[w])

\* Every transition(o), o an outcome of d, sums to 1.
ValidOn(f, d) == \A o \in DOMAIN d : Near(Total(Apply(f, o)), One)

\* C1: a step of a distribution that sums to 1, by a transition function
\* whose every output sums to 1, sums to 1 (within the tolerance), also when
\* several outcomes send mass to one destination.
C1_StepConservesMass ==
  pc = "extrapolate" =>
    (Near(Total(current), One) /\ ValidOn(Model.key, current)
       => Near(Total(step(current, Model.key)), One))

\* Two steps of the 10% decay: "dead" holds its own 0.1 and the 0.09 that
\* arrives from 2023.
C1_Witness ==
  /\ pc = "extrapolate" /\ i = 2
  /\ Model.key = Decay
  /\ start = Year(StartYear)
  /\ current = (Year(StartYear + 2) :> Dec(81, 2)) @@ (Dead :> Dec(19, 2))
  /\ Total(current) = One

\* Whether h is what extrapolate(s, f, n) must return: n distributions, the
\* first the point mass on s, every other one a step of the one before.
IsTrajectory(h, s, f, n) ==
  /\ Len(h) = n
  /\ n > 0 => h[1] = (s :> One)
  /\ \A j \in 2..n : h[j] = step(h[j - 1], f)

\* C2: extrapolate(start, f, n) returns exactly n distributions, element i
\* the point mass on start stepped i times: element 0 the point mass, the
\* last element stepped n - 1 times.
C2_TrajectoryOfSteps ==
  /\ pc = "extrapolate" => Len(result) = i /\ i <= nSteps
  /\ (histories # <<>> /\ i = 0 /\ mixI = 0 /\ pc # "return") =>
       IsTrajectory(histories[Len(histories)].history, start,
                    models[Len(histories)].key, nSteps)

\* extrapolate has returned three distributions of the lazy chain; the third
\* has been stepped twice.
C2_Witness ==
  /\ pc = "mixHistories" /\ mixI = 0
  /\ nSteps = 3 /\ start = Year(StartYear)
  /\ models[Len(models)].key = Lazy
  /\ Len(histories[Len(histories)].history) = 3
  /\ histories[Len(histories)].history[3] =
       (Year(StartYear) :> Dec(25, 2)) @@ (Year(StartYear + 1) :> Dec(5, 1))
         @@ (Year(StartYear + 2) :> Dec(25, 2))

\* The pairs (extrapolate(start, f, n)[j], w) over the ensemble.
PairsAt(j) ==
  Tuple([k \in 1..Len(models) |->
           [ensemble |-> histories[k].history[j], weight |-> models[k].value]])

\* The caller of the specification's example.
IsExample ==
  /\ start = Year(2022)
  /\ models = <<[key |-> Decay, value |-> One]>>
  /\ nSteps = 3

\* C3: extrapolateAndMix(start, ensemble, n) returns n distributions, element
\* i the mix of the members' elements i with the members' weights; for the
\* single 10% decay from 2022 and n = 3 it returns {2022: 1},
\* {2023: 0.9, dead: 0.1}, {2024: 0.81, dead: 0.19}.
C3_MixOfTrajectories ==
  pc = "return" =>
    /\ Len(returned) = nSteps
    /\ \A j \in 1..nSteps : returned[j] = mix(PairsAt(j))
    /\ IsExample =>
         returned = << (Year(2022) :> One),
                       (Year(2023) :> Dec(9, 1)) @@ (Dead :> Dec(1, 1)),
                       (Year(2024) :> Dec(81, 2)) @@ (Dead :> Dec(19, 2)) >>

\* The example's call has returned.
C3_Witness ==
  /\ pc = "return" /\ IsExample
  /\ Len(returned) = 3
  /\ returned[3][Dead] = Dec(19, 2)

\* The sum over the pairs 1..n of (d.get(o) or 0) * w / totalWeight.
RECURSIVE Weighted(_, _, _, _)
Weighted(pairs, totalWeight, o, n) ==
  IF n = 0 THEN Zero
  ELSE FAdd(Weighted(pairs, totalWeight, o, n - 1),
            FDiv(FMul(Get(pairs[n].ensemble, o), pairs[n].weight), totalWeight))

RECURSIVE WeightTotal(_, _)
WeightTotal(pairs, n) ==
  IF n = 0 THEN Zero ELSE FAdd(WeightTotal(pairs, n - 1), pairs[n].weight)

\* Every outcome a caller's chain or the domain chain can hold by index n.
Worlds(n) == Terminal \cup {Year(StartYear + k) : k \in 0..n}

\* m holds for every outcome the weighted sum of the pairs, and no other key.
IsWeightedMix(m, pairs, n) ==
  /\ DOMAIN m \subseteq Worlds(n)
  /\ \A o \in Worlds(n) :
       /\ Get(m, o) = Weighted(pairs, WeightTotal(pairs, Len(pairs)), o, Len(pairs))
       /\ o \in DOMAIN m <=> \E k \in 1..Len(pairs) : o \in DOMAIN pairs[k].ensemble

\* m is the plain average of two distributions of weight 1 each.
IsAverage(m, pairs, n) ==
  (Len(pairs) = 2 /\ pairs[1].weight = One /\ pairs[2].weight = One) =>
    \A o \in Worlds(n) :
      Get(m, o) = FDiv(FAdd(Get(pairs[1].ensemble, o), Get(pairs[2].ensemble, o)), Two)

\* m and d hold the same keys and the same masses up to the tolerance.
NearMap(m, d) ==
  /\ DOMAIN m = DOMAIN d
  /\ \A o \in DOMAIN d : Near(m[o], d[o])

\* The weights for which (p * w) / w is p without rounding.
ExactWeight(w) == w = One \/ w = Two

\* The mix of the index mixResult was last extended with.
LastMixed == mixResult[mixI]
LastPairs == PairsAt(mixI)

\* C4 as amended: mix gives every outcome the sum of (d_i.get(o) or 0) * w_i
\* / totalWeight; two distributions of weight 1 mix to their average; a
\* single pair (d, w) mixes to d up to the rounding of (p * w) / w, and to
\* d itself when w is 1 or 2.
C4_MixWeighting ==
  (pc = "mixHistories" /\ mixI >= 1) =>
    /\ IsWeightedMix(LastMixed, LastPairs, mixI)
    /\ IsAverage(LastMixed, LastPairs, mixI)
    /\ Len(models) = 1 =>
         /\ NearMap(LastMixed, LastPairs[1].ensemble)
         /\ ExactWeight(models[1].value) => LastMixed = LastPairs[1].ensemble

\* C4 as claimed: a single pair (d, w) mixes to d itself, whatever w > 0 is.
C4_SingletonIsIdentity ==
  (pc = "mixHistories" /\ mixI >= 1 /\ Len(models) = 1) =>
    LastMixed = LastPairs[1].ensemble

\* The decay and the lazy chain, weight 1 each, mixed at the third index:
\* 2022 holds (0 + 0.25) / 2.
C4_Witness ==
  /\ pc = "mixHistories" /\ mixI = 3
  /\ start = Year(StartYear)
  /\ models = <<[key |-> Decay, value |-> One], [key |-> Lazy, value |-> One]>>
  /\ LastMixed[Year(StartYear)] = Dec(125, 3)
  /\ LastMixed[Dead] = Dec(95, 3)

SubModelOK(sm) ==
  /\ UnitInterval(sm.p)
  /\ \A k \in DOMAIN sm.odds : FLe(Zero, sm.odds[k])
  /\ FLt(Zero, OddsTotal(sm.odds))

SubModelsOK(f, year) ==
  /\ SubModelOK(SubModel(f.agi, year))
  /\ SubModelOK(SubModel(f.nukes, year))
  /\ SubModelOK(SubModel(f.plague, year))

\* C6: for a year and sub-models with p in [0, 1] and non-negative odds of
\* positive sum, the four masses the combined transition function gives to
\* heaven, dead, reset and the next year are each in [0, 1].
C6_MassesInUnitInterval ==
  (pc = "extrapolate" /\ Model.key.kind = "simple") =>
    \A w \in DOMAIN current :
      (w.tag = "year" /\ SubModelsOK(Model.key, w.year))
        => AllUnitInterval(Apply(Model.key, w))

\* C7: at every index, the mass on "dead" of the trajectory with work is at
\* least the mass on "dead" of the trajectory without.
C7_DeadMassMonotone ==
  app = "delta" =>
    \A n \in 1..Len(historyWork) :
      FLe(Get(historyNoWork[n], Dead), Get(historyWork[n], Dead))

\* Both trajectories are computed and at the last index the one with work
\* holds more mass on "dead".
C7_Witness ==
  /\ app = "delta"
  /\ Len(historyWork) = Horizon /\ Len(historyNoWork) = Horizon
  /\ FLt(Zero, delta[Horizon][Dead])

\* The family-normalized weight of the sub-model key.
WeightIn(family, key) ==
  family[CHOOSE j \in 1..Len(family) : family[j].key = key].value

\* The work flag of the running call of App.tsx.
Opts == [work |-> app = "work"]

\* C8: for both work flags buildModels returns eight entries, one combined
\* transition function per triple (agi, nukes, plague), each weighing the
\* product of its three sub-models' family-normalized weights; the weights
\* sum to 1.
C8_EnsembleNormalized ==
  (app \in {"noWork", "work"} /\ pc = "extrapolate" /\ i = 0) =>
    /\ models = buildModels(Opts)
    /\ Len(models) = 8
    /\ Cardinality({models[k].key : k \in 1..Len(models)}) = 8
    /\ {models[k].key : k \in 1..Len(models)} =
         {simpleTransitionFunction(
            [agi    |-> [fam |-> "agi", id |-> a, acc |-> accelerationFromWorking(Opts)],
             nukes  |-> [fam |-> "nukes", id |-> 1],
             plague |-> [fam |-> "plague", id |-> p]]) : a \in 1..4, p \in 1..2}
    /\ \A k \in 1..Len(models) :
         models[k].value =
           FMul(FMul(WeightIn(agiModels(accelerationFromWorking(Opts)), models[k].key.agi),
                     WeightIn(nukesModels, models[k].key.nukes)),
                WeightIn(plagueModels, models[k].key.plague))
    /\ SumValues(models) = One

\* The second call of App.tsx starts with the ensemble built with work.
C8_Witness ==
  /\ app = "work" /\ pc = "extrapolate" /\ i = 0 /\ histories = <<>>
  /\ Len(models) = 8
  /\ models[1].value = Dec(15625, 5)
  /\ models[8].value = Dec(3125, 5)

\* The ensemble of the other work flag than the running call's.
Counterpart == buildModels([work |-> app # "work"])

\* The factor buildModels computes for work.
Factor == accelerationFromWorking([work |-> TRUE])

\* The sub-model's p with work is the factor times its p without.
Accelerated(withWork, withoutWork, year) ==
  Close(Rate(withWork, year), FMul(Factor, Rate(withoutWork, year)))

\* The year the running chain of App.tsx has reached.
ThisYear == StartYear + i

\* Whether P(with, without, year) holds of the sub-models of family fam in
\* the k-th entries of the ensembles with and without work, the running
\* call's ensemble one of the two and other the other, at the year the
\* running chain has reached.
Compared(P(_, _, _), other, k, fam) ==
  IF app = "work"
  THEN P(models[k].key[fam], other[k].key[fam], ThisYear)
  ELSE P(other[k].key[fam], models[k].key[fam], ThisYear)

SameRate(withWork, withoutWork, year) == Rate(withWork, year) = Rate(withoutWork, year)

AgiOnly(other, k) ==
  /\ Compared(Accelerated, other, k, "agi")
  /\ Compared(SameRate, other, k, "nukes")
  /\ Compared(SameRate, other, k, "plague")

AllFamilies(other, k) ==
  \A fam \in {"agi", "nukes", "plague"} : Compared(Accelerated, other, k, fam)

\* C9 as amended: for every year and every AGI sub-model of buildModels, p
\* before the cap with work is the acceleration factor times p without work,
\* up to rounding; the nuke and the plague sub-models' p is the same with
\* and without work.  (Stated of the member being extrapolated at the year
\* its chain has reached: every member meets every year.)
C9_AgiHazardAccelerated ==
  (app \in {"noWork", "work"} /\ pc = "extrapolate")
    => AgiOnly(Counterpart, Len(histories) + 1)

\* C9 as claimed: for every year and every sub-model of the three families,
\* p with work is the acceleration factor times p without work.
C9_EveryHazardAccelerated ==
  (app \in {"noWork", "work"} /\ pc = "extrapolate")
    => AllFamilies(Counterpart, Len(histories) + 1)

\* The first chain with work has reached 2050; its agi model's rate is past
\* the rate without work, its nuke model's rate is the rate without work.
C9_Witness ==
  /\ app = "work" /\ pc = "extrapolate" /\ ThisYear = 2050
  /\ histories = <<>>
  /\ FLt(Rate([fam |-> "agi", id |-> 1, acc |-> One], ThisYear),
         Rate(models[1].key.agi, ThisYear))
  /\ Rate(models[1].key.nukes, ThisYear) = NukeP

\* The masses on the absorbing outcomes do not decrease from h[n - 1] to
\* h[n].
AbsorbedGrows(h, n) ==
  \A w \in Terminal : FLe(Get(h[n - 1], w), Get(h[n], w))

\* C10: along the trajectory of every ensemble member and along the mixed
\* trajectory, the mass on "dead", on "heaven" and on "reset" never
\* decreases from one index to the next.
C10_AbsorbedNeverDecreases ==
  /\ (app # "none" /\ Len(result) >= 2) => AbsorbedGrows(result, Len(result))
  /\ (app # "none" /\ Len(mixResult) >= 2) => AbsorbedGrows(mixResult, Len(mixResult))

====
